---- MODULE Spec2Model ----
(***************************************************************************)
(* Model of src/dl.py: the batch download orchestrator of loom-downloader. *)
(* Text (URLs, file contents, file names) is a sequence of one-character   *)
(* strings, so that split, strip and formatting are modelled by what they  *)
(* do.  Every await of the source on network, disk or a timer is a         *)
(* suspension point and hence the boundary between two actions.            *)
(***************************************************************************)
EXTENDS Integers, Sequences, FiniteSets, TLC

VARIABLES
    listFile,   \* content of the input list file (args.list)
    prefix,     \* args.prefix; <<>> stands for None and for ""
    timeout,    \* args.timeout, milliseconds
    logFile,    \* downloaded.log: [exists, content]
    files,      \* output directory: file name -> what was written to it
    phase,      \* main: "idle"; "running" download_from_list, "single"
                \* download_single_file; "crashed" by an exception
    loaded,     \* downloaded_set of the current run
    logAtStart, \* downloaded.log as it was when the current run began
    jobs,       \* the tasks of the current run, in list order
    poolLimit,  \* pool_limit, the first argument of async_pool
    retries0,   \* retries, the first argument of backoff at line 128
    delay0,     \* delay, the third parameter of backoff at line 128
    argsUrl,    \* args.url; <<>> stands for None
    succeededBefore, \* URLs whose job succeeded in a run before this one
    failedBefore,    \* <<URL, step>> of the jobs that failed in the run
                     \* before this one
    sem,        \* value of the semaphore of async_pool
    flaky       \* the jobs of this run the environment has failed a step of

\* What a behaviour is given and never changes
inputs == <<listFile, prefix, timeout, poolLimit, retries0, delay0,
            argsUrl>>

\* What is recorded of earlier runs
history == <<succeededBefore, failedBefore>>

vars == <<listFile, prefix, timeout, logFile, files, phase, loaded,
          logAtStart, jobs, poolLimit, retries0, delay0, argsUrl, sem,
          flaky,
          succeededBefore, failedBefore>>

-----------------------------------------------------------------------------
(* Bounds of the model *)

MaxLines == 2     \* lines of the input list file
MaxLogLines == 1  \* lines of downloaded.log before the first run
MaxFlaky == 1     \* jobs of one run that meet failures of the environment
MaxPool == 2      \* largest pool_limit of the pool scenario
MaxAttempts == 4  \* largest retries of the backoff scenario

(* Program constants *)

PoolLimit == 5        \* download_from_list: async_pool(5, tasks)
Retries == 5          \* backoff(5, ...)
InitialDelay == 1000  \* backoff(..., delay: int = 1000)
DelayCeiling == 32000 \* delay <= 32000
DefaultPause == 5000  \* asyncio.sleep(5)
DefaultTimeout == 5000

-----------------------------------------------------------------------------
(* Text *)

NL == "\n"
Whitespace == {" ", "\t", "\n", "\r"}

\* str.split(sep) for a one-character separator
RECURSIVE Split(_, _)
Split(s, sep) ==
    IF \E i \in 1..Len(s) : s[i] = sep
    THEN LET i == CHOOSE k \in 1..Len(s) :
                      s[k] = sep /\ \A m \in 1..(k - 1) : s[m] # sep
         IN  <<SubSeq(s, 1, i - 1)>> \o Split(SubSeq(s, i + 1, Len(s)), sep)
    ELSE <<s>>

RECURSIVE LStrip(_)
LStrip(s) == IF s # <<>> /\ Head(s) \in Whitespace THEN LStrip(Tail(s)) ELSE s

RECURSIVE RStrip(_)
RStrip(s) ==
    IF s # <<>> /\ s[Len(s)] \in Whitespace
    THEN RStrip(SubSeq(s, 1, Len(s) - 1))
    ELSE s

\* str.strip()
Strip(s) == RStrip(LStrip(s))

Digit(d) == <<"0", "1", "2", "3", "4", "5", "6", "7", "8", "9">>[d + 1]

\* f"{n}" for an int n >= 0
RECURSIVE Dec(_)
Dec(n) == IF n < 10 THEN <<Digit(n)>> ELSE Dec(n \div 10) \o <<Digit(n % 10)>>

RECURSIVE Join(_, _)
Join(lines, sep) ==
    IF lines = <<>> THEN <<>>
    ELSE IF Len(lines) = 1 THEN lines[1]
    ELSE lines[1] \o <<sep>> \o Join(Tail(lines), sep)

Range(s) == {s[i] : i \in 1..Len(s)}

-----------------------------------------------------------------------------
(* The functions of dl.py *)

\* Mutant: the last path segment with its query string
extract_id_KeepQuery(url) ==
    LET segs == Split(url, "/") IN segs[Len(segs)]

\* extract_id: drop the query string, keep the last path segment
extract_id(url) ==
    LET path == Split(url, "?")[1]
        segs == Split(path, "/")
    IN  segs[Len(segs)]

\* What the platform can answer to the POST of fetch_loom_download_url
ResolveResponses ==
    {[status |-> 200, hasUrl |-> TRUE], [status |-> 200, hasUrl |-> FALSE],
     [status |-> 500, hasUrl |-> FALSE]}

\* fetch_loom_download_url: the direct media URL, or the exception raised
fetch_loom_download_url(resp) ==
    IF resp.status # 200 THEN [raised |-> TRUE, exc |-> "ResolutionStatus"]
    ELSE IF ~resp.hasUrl THEN [raised |-> TRUE, exc |-> "KeyError"]
    ELSE [raised |-> FALSE, exc |-> "none"]

\* What can happen to the GET of download_loom_video: the status of the
\* response, and whether the body and the writes to disk go through
FetchResponses ==
    {[status |-> s, complete |-> c] : s \in {200, 500}, c \in BOOLEAN}
        \cup {[status |-> 403, complete |-> TRUE]}

\* download_loom_video: the exception raised, if any, and what the call
\* leaves at output_path ("keep": the file is not opened)
download_loom_video(resp) ==
    IF resp.status = 403
    THEN [raised |-> TRUE, exc |-> "Forbidden", file |-> "keep"]
    ELSE IF ~resp.complete
    THEN [raised |-> TRUE, exc |-> "Transfer", file |-> "partial"]
    ELSE [raised |-> FALSE, exc |-> "none",
          file |-> IF resp.status = 200 THEN "video" ELSE "errorbody"]

\* Mutant: a backoff without the ceiling on the delay
BackoffRetries_NoCeiling(retries, delay) == retries > 1

\* Mutant: the count of attempts left is compared with 0
BackoffRetries_OffByOne(retries, delay) ==
    retries > 0 /\ delay <= DelayCeiling

\* backoff, the condition of line 50: sleep and call fn again
BackoffRetries(retries, delay) == retries > 1 /\ delay <= DelayCeiling

\* Mutant: a backoff that returns instead of raising the last failure
AfterFn_Swallow(raised, retries, delay) ==
    IF ~raised THEN "append"
    ELSE IF retries > 1 /\ delay <= DelayCeiling THEN "backoff"
    ELSE "append"

\* backoff, lines 47-53, after a call of fn: return its result, which takes
\* download_single_video to line 129; sleep for a retry; or raise
AfterFn(raised, retries, delay) ==
    IF ~raised THEN "append"
    ELSE IF BackoffRetries(retries, delay) THEN "backoff"
    ELSE "raise"

\* Mutant: the log is opened in mode 'w', which truncates it
open_a_Truncate(log) == [exists |-> TRUE, content |-> <<>>]

\* aiofiles.open(log_file, 'a'), line 58: the file is created if it is not
\* there and its content is left as it is
open_a(log) == [exists |-> TRUE, content |-> log.content]

\* Mutant: the URL is written without its newline
append_to_log_file_NoNewline(url, log) ==
    [exists |-> TRUE, content |-> log.content \o url]

\* append_to_log_file, line 59 and the close of the file: the URL and a
\* newline reach the file in one write, which mode 'a' puts at its end
append_to_log_file(url, log) ==
    [exists |-> TRUE, content |-> log.content \o url \o <<NL>>]

\* read_downloaded_log: the stripped non-blank lines; no file, empty set
read_downloaded_log(log) ==
    IF ~log.exists THEN {}
    ELSE {Strip(l) :
             l \in {m \in Range(Split(log.content, NL)) : Strip(m) # <<>>}}

\* Mutant: the filter looks the unstripped line up in the log
RemainingUrls_Unstripped(content, downloaded_set) ==
    LET lines == Split(content, NL)
        idx == {i \in 1..Len(lines) :
                   Strip(lines[i]) # <<>> /\ lines[i] \notin downloaded_set}
        RECURSIVE Pick(_)
        Pick(i) ==
            IF i > Len(lines) THEN <<>>
            ELSE (IF i \in idx THEN <<Strip(lines[i])>> ELSE <<>>)
                     \o Pick(i + 1)
    IN  Pick(1)

\* download_from_list, line 93: the URLs a run creates jobs for
RemainingUrls(content, downloaded_set) ==
    LET lines == Split(content, NL)
        Keep(l) == Strip(l) # <<>> /\ Strip(l) \notin downloaded_set
        idx == {i \in 1..Len(lines) : Keep(lines[i])}
        RECURSIVE Pick(_)
        Pick(i) ==
            IF i > Len(lines) THEN <<>>
            ELSE (IF i \in idx THEN <<Strip(lines[i])>> ELSE <<>>)
                     \o Pick(i + 1)
    IN  Pick(1)

\* download_single_video, lines 120-123
Filename(pfx, index, video_id) ==
    IF pfx # <<>>
    THEN pfx \o <<"-">> \o Dec(index) \o <<"-">> \o video_id
             \o <<".", "m", "p", "4">>
    ELSE video_id \o <<".", "m", "p", "4">>

\* download_single_video, lines 131-136: the pause in milliseconds
PauseMs(t) == IF t # 0 THEN t ELSE DefaultPause

\* Mutant: a handler that marks the URL completed all the same
HandlerLog_Marks(url, log) ==
    [exists |-> TRUE, content |-> log.content \o url \o <<NL>>]

\* The handler of download_single_video (lines 138-139) reports the failure
\* and leaves the log as it is
HandlerLog(url, log) == log

\* Mutant: a handler that catches the network failures only
Caught_NetworkOnly(exc) ==
    exc \in {"ResolutionStatus", "Forbidden", "Transfer"}

\* except Exception (lines 49 and 138) catches every failure modelled here
Caught(exc) ==
    exc \in {"ResolutionStatus", "KeyError", "Forbidden", "Transfer",
             "LogWrite"}

\* Mutant: an acquire that keeps one slot of the pool idle
SemaphoreFree_Spare(value) == value > 1

\* Mutant: an acquire that also goes through at value 0
SemaphoreFree_AtZero(value) == value >= 0

\* asyncio.Semaphore.acquire goes through only while the value is positive
SemaphoreFree(value) == value > 0

\* Mutant: a slot that is not given back
SemaphoreRelease_Leak(value) == value

\* asyncio.Semaphore.release, at the exit of `async with semaphore`
SemaphoreRelease(value) == value + 1

-----------------------------------------------------------------------------
(* Inputs *)

\* Share URLs of the platform: "s/1", "s/2", ...
Url(i) == <<"s", "/">> \o Dec(i)

\* The same with a query string, as the share links of the platform have
UrlQ(i) == Url(i) \o <<"?", "t">>

\* Lines an input list file is made of: a blank line, a URL, the same URL
\* with a query string, and another such URL with blanks around it
LineChoices == {<<" ">>, Url(1), UrlQ(1), <<" ">> \o UrlQ(2) \o <<" ">>}

RECURSIVE SeqsUpTo(_, _)
SeqsUpTo(S, n) ==
    IF n = 0 THEN {<<>>}
    ELSE LET shorter == SeqsUpTo(S, n - 1)
         IN  shorter \cup {Append(q, x) : q \in shorter, x \in S}

ListChoices == {Join(ls, NL) : ls \in SeqsUpTo(LineChoices, MaxLines)}

\* downloaded.log before the first run: absent, or what earlier runs of the
\* program appended to it
LogChoices ==
    {[exists |-> FALSE, content |-> <<>>]} \cup
    {[exists |-> TRUE, content |-> Join(ls \o <<(<<>>)>>, NL)] :
        ls \in SeqsUpTo({Url(1), UrlQ(2)}, MaxLogLines)}

\* The command lines: --prefix and --timeout given or left out
ArgChoices ==
    {[prefix |-> <<>>, timeout |-> DefaultTimeout],
     [prefix |-> <<"p">>, timeout |-> 0]}

-----------------------------------------------------------------------------
(* State machine *)

NoFiles == [f \in {} |-> "none"]

InitRest ==
    /\ files = NoFiles
    /\ phase = "idle"
    /\ loaded = {}
    /\ logAtStart = logFile
    /\ jobs = <<>>
    /\ sem = 0
    /\ flaky = {}
    /\ succeededBefore = {}
    /\ failedBefore = {}

Init ==
    /\ poolLimit = PoolLimit
    /\ retries0 = Retries
    /\ delay0 = InitialDelay
    /\ argsUrl = <<>>
    /\ listFile \in ListChoices
    /\ \E a \in ArgChoices : prefix = a.prefix /\ timeout = a.timeout
    /\ logFile \in LogChoices
    /\ InitRest

\* A task as download_from_list creates it (lines 99-110), not yet started.
\* url, video_id and index are its arguments; pc, download_url, retries and
\* delay are where the coroutine stands and its locals. The other fields
\* record what the task has done: resolves counts its calls of the resolver;
\* fetched and waits are the direct media URL of each call of fn and the
\* sleeps of its call of backoff, up to the return of backoff; status is the
\* status of the response download_loom_video returned normally on (0: none
\* so far); appended, whether it wrote the log; pause, the pause it slept;
\* outcome and stage, how it ended and in which step it failed
NewJob(url, i) ==
    [url |-> url, video_id |-> extract_id(url), index |-> i,
     pc |-> "queued", download_url |-> <<>>, retries |-> 0, delay |-> 0,
     resolves |-> 0, fetched |-> <<>>, waits |-> <<>>, status |-> 0,
     appended |-> FALSE, pause |-> <<>>,
     outcome |-> "none", stage |-> "none"]

\* A task that has returned: its frame is gone, the record of it stays
Returned(job, outcome, stage) ==
    [job EXCEPT !.pc = "done", !.download_url = <<>>, !.retries = 0,
                !.delay = 0, !.outcome = outcome, !.stage = stage]

OutputPath(job) == Filename(prefix, job.index, job.video_id)

\* download_from_list up to the call of async_pool: load the log, read and
\* filter the list, create one task per remaining URL and the semaphore
StartBatch ==
    /\ phase = "idle"
    /\ LET downloaded_set == read_downloaded_log(logFile)
           urls == RemainingUrls(listFile, downloaded_set)
       IN  /\ loaded' = downloaded_set
           /\ jobs' = [i \in 1..Len(urls) |-> NewJob(urls[i], i)]
    /\ logAtStart' = logFile
    /\ sem' = poolLimit
    /\ phase' = "running"
    /\ succeededBefore' = succeededBefore \cup
            {jobs[j].url : j \in {k \in 1..Len(jobs) : jobs[k].outcome = "ok"}}
    /\ failedBefore' =
            {<<jobs[j].url, jobs[j].stage>> :
                j \in {k \in 1..Len(jobs) : jobs[k].outcome = "failed"}}
    /\ flaky' = {}
    /\ UNCHANGED <<inputs, logFile, files>>

\* The environment fails steps of at most MaxFlaky jobs of a run
MayFail(j, nominal) ==
    nominal \/ j \in flaky \/ Cardinality(flaky) < MaxFlaky
Charge(j, nominal) == IF nominal THEN flaky ELSE flaky \cup {j}

\* bounded_task: the tasks reach the semaphore in list order; the one that
\* acquires it starts its coroutine, which runs up to the resolver's POST
Admit(j) ==
    /\ phase = "running"
    /\ jobs[j].pc = "queued"
    /\ \A k \in 1..(j - 1) : jobs[k].pc # "queued"
    /\ SemaphoreFree(sem)
    /\ sem' = sem - 1
    /\ jobs' = [jobs EXCEPT ![j].pc = "resolve",
                            ![j].resolves = @ + 1]
    /\ UNCHANGED <<inputs, logFile, files, phase, loaded, logAtStart,
                   flaky, history>>

\* An exception reaches the try of download_single_video: line 138 catches
\* and reports it, the task returns and `async with` releases the semaphore.
\* Were it not caught, gather would raise it and the batch would be over.
Fail(j, exc) ==
    /\ jobs' = [jobs EXCEPT ![j] = Returned(@, "failed", @.pc)]
    /\ logFile' = HandlerLog(jobs[j].url, logFile)
    /\ sem' = SemaphoreRelease(sem)
    /\ phase' = IF Caught(exc) THEN phase ELSE "crashed"

\* The resolver's POST is answered (lines 118, 20-27). On success the task
\* goes on to backoff(5, ...), whose first call of fn sends the GET
Resolve(j, resp) ==
    /\ phase = "running"
    /\ jobs[j].pc = "resolve"
    /\ LET nominal == resp.status = 200 /\ resp.hasUrl
           r == fetch_loom_download_url(resp)
           direct == <<j, jobs[j].resolves>>
       IN  /\ MayFail(j, nominal)
           /\ flaky' = Charge(j, nominal)
           /\ IF r.raised
              THEN Fail(j, r.exc)
              ELSE /\ jobs' = [jobs EXCEPT ![j].pc = "fetch",
                                           ![j].download_url = direct,
                                           ![j].retries = retries0,
                                           ![j].delay = delay0,
                                           ![j].fetched = Append(@, direct)]
                   /\ UNCHANGED <<sem, phase, logFile>>
    /\ UNCHANGED <<inputs, files, loaded, logAtStart, history>>

\* The GET of download_loom_video is answered and the body streamed
\* (lines 36-42), inside backoff (lines 47-53). On success the task goes on
\* to append_to_log_file; on failure it sleeps for a retry or gives up
Fetch(j, resp) ==
    /\ phase = "running"
    /\ jobs[j].pc = "fetch"
    /\ LET nominal == resp.status = 200 /\ resp.complete
           r == download_loom_video(resp)
           path == OutputPath(jobs[j])
       IN  /\ MayFail(j, nominal)
           /\ flaky' = Charge(j, nominal)
           /\ files' = IF r.file = "keep" THEN files
                       ELSE [f \in DOMAIN files \cup {path} |->
                                IF f = path THEN r.file ELSE files[f]]
           /\ LET next == AfterFn(r.raised, jobs[j].retries, jobs[j].delay)
              IN  CASE next = "append" ->
                         /\ jobs' = [jobs EXCEPT
                                ![j].pc = "append",
                                ![j].retries = 0,
                                ![j].delay = 0,
                                ![j].fetched = <<>>,
                                ![j].waits = <<>>,
                                ![j].status = IF r.raised THEN 0
                                              ELSE resp.status]
                         /\ UNCHANGED <<sem, phase, logFile>>
                    [] next = "backoff" ->
                         /\ jobs' = [jobs EXCEPT
                                ![j].pc = "backoff",
                                ![j].waits = Append(@, jobs[j].delay)]
                         /\ UNCHANGED <<sem, phase, logFile>>
                    [] OTHER -> Fail(j, r.exc)
    /\ UNCHANGED <<inputs, loaded, logAtStart, history>>

\* The sleep of backoff is over (line 51): backoff(retries - 1, fn,
\* delay * 2) calls fn again, which sends the GET for the same download_url
BackoffWake(j) ==
    /\ phase = "running"
    /\ jobs[j].pc = "backoff"
    /\ jobs' = [jobs EXCEPT ![j].pc = "fetch",
                            ![j].retries = @ - 1,
                            ![j].delay = @ * 2,
                            ![j].fetched = Append(@, jobs[j].download_url)]
    /\ UNCHANGED <<inputs, logFile, files, phase, loaded, logAtStart, sem,
                   flaky, history>>

\* append_to_log_file (line 129) opens the log in a worker thread: other
\* tasks run until the open is done
OpenLog(j, ok) ==
    /\ phase = "running"
    /\ jobs[j].pc = "append"
    /\ MayFail(j, ok)
    /\ flaky' = Charge(j, ok)
    /\ IF ok
       THEN /\ logFile' = open_a(logFile)
            /\ jobs' = [jobs EXCEPT ![j].pc = "write"]
            /\ UNCHANGED <<sem, phase>>
       ELSE Fail(j, "LogWrite")
    /\ UNCHANGED <<inputs, files, loaded, logAtStart, history>>

\* The write and the close of append_to_log_file are done: the line is in
\* the log, append_to_log_file returns and the task goes to sleep for the
\* pause (lines 131-136)
AppendLog(j, ok) ==
    /\ phase = "running"
    /\ jobs[j].pc = "write"
    /\ MayFail(j, ok)
    /\ flaky' = Charge(j, ok)
    /\ IF ok
       THEN /\ logFile' = append_to_log_file(jobs[j].url, logFile)
            /\ jobs' = [jobs EXCEPT ![j].pc = "pause",
                                    ![j].appended = TRUE,
                                    ![j].pause = <<PauseMs(timeout)>>]
            /\ UNCHANGED <<sem, phase>>
       ELSE Fail(j, "LogWrite")
    /\ UNCHANGED <<inputs, files, loaded, logAtStart, history>>

\* The pause is over: the task returns and the semaphore is released
PauseWake(j) ==
    /\ phase = "running"
    /\ jobs[j].pc = "pause"
    /\ jobs' = [jobs EXCEPT ![j] = Returned(@, "ok", "none")]
    /\ sem' = SemaphoreRelease(sem)
    /\ UNCHANGED <<inputs, logFile, files, phase, loaded, logAtStart,
                   flaky, history>>

\* gather has every result: async_pool and download_from_list return
FinishBatch ==
    /\ phase = "running"
    /\ \A j \in 1..Len(jobs) : jobs[j].pc = "done"
    /\ phase' = "idle"
    /\ UNCHANGED <<inputs, logFile, files, loaded, logAtStart, jobs, sem,
                   flaky, history>>

Next ==
    \/ StartBatch
    \/ \E j \in 1..Len(jobs) : Admit(j)
    \/ \E j \in 1..Len(jobs), resp \in ResolveResponses : Resolve(j, resp)
    \/ \E j \in 1..Len(jobs), resp \in FetchResponses : Fetch(j, resp)
    \/ \E j \in 1..Len(jobs) : BackoffWake(j)
    \/ \E j \in 1..Len(jobs), ok \in BOOLEAN : OpenLog(j, ok)
    \/ \E j \in 1..Len(jobs), ok \in BOOLEAN : AppendLog(j, ok)
    \/ \E j \in 1..Len(jobs) : PauseWake(j)
    \/ FinishBatch

Spec == Init /\ [][Next]_vars

\* The pool scenario: async_pool with a small pool_limit and a list of one
\* URL more than the pool has slots, none of them downloaded yet
PoolList(limit) == Join([i \in 1..(limit + 1) |-> Url(i)], NL)

InitPool ==
    /\ poolLimit \in 1..MaxPool
    /\ retries0 = Retries
    /\ delay0 = InitialDelay
    /\ argsUrl = <<>>
    /\ listFile = PoolList(poolLimit)
    /\ \E a \in ArgChoices : prefix = a.prefix /\ timeout = a.timeout
    /\ logFile = [exists |-> FALSE, content |-> <<>>]
    /\ InitRest

SpecPool == InitPool /\ [][Next]_vars

\* The scheduler scenario: async_pool given tasks that can raise. A task
\* raises out of its coroutine where it is suspended: download_single_video
\* lets through what `except Exception` (line 138) does not catch, a
\* cancellation for one, and an awaitable without a handler lets through
\* every failure. `async with` releases the semaphore, and gather (line 80),
\* called without return_exceptions, raises the exception to the caller of
\* async_pool at once, whatever the other tasks are doing
TaskRaises(j) ==
    /\ phase = "running"
    /\ jobs[j].pc \notin {"queued", "done"}
    /\ Fail(j, "CancelledError")
    /\ UNCHANGED <<inputs, files, loaded, logAtStart, flaky, history>>

NextSched == Next \/ \E j \in 1..Len(jobs) : TaskRaises(j)

SpecSched == InitPool /\ [][NextSched]_vars

\* The backoff scenario: backoff called with other arguments than the 5 and
\* the default delay of line 128, for a list of one URL. The delays reach
\* the ceiling from below, sit on it, or lie beyond it
DelayChoices == {InitialDelay, 16000, 32000, 33000}

InitBackoff ==
    /\ poolLimit = PoolLimit
    /\ retries0 \in 1..MaxAttempts
    /\ delay0 \in DelayChoices
    /\ argsUrl = <<>>
    /\ listFile = Url(1)
    /\ \E a \in ArgChoices : prefix = a.prefix /\ timeout = a.timeout
    /\ logFile = [exists |-> FALSE, content |-> <<>>]
    /\ InitRest

SpecBackoff == InitBackoff /\ [][Next]_vars

\* Single-file mode: --url is given and --list is not

\* Mutant: a download_single_file that swallows the failure
SingleAfter_Swallow(raised) == "return"

\* download_single_file awaits the resolver and the fetcher without a try:
\* an exception of either leaves the coroutine, main and asyncio.run
SingleAfter(raised) == IF raised THEN "raise" ELSE "return"

\* download_single_file, line 148, args.out not given
SinglePath(job) == Filename(<<>>, job.index, job.video_id)

InitSingle ==
    /\ poolLimit = PoolLimit
    /\ retries0 = Retries
    /\ delay0 = InitialDelay
    /\ listFile = <<>>
    /\ argsUrl \in {Url(1), UrlQ(1), UrlQ(2)}
    /\ \E a \in ArgChoices : prefix = a.prefix /\ timeout = a.timeout
    /\ logFile \in LogChoices
    /\ InitRest

\* main calls download_single_file (lines 175-176), which runs up to the
\* resolver's POST (lines 144-147). The record of the call has the fields of
\* a task of the batch
SingleStart ==
    /\ phase = "idle"
    /\ argsUrl # <<>>
    /\ phase' = "single"
    /\ jobs' = <<[NewJob(argsUrl, 1) EXCEPT !.pc = "resolve",
                                            !.resolves = 1]>>
    /\ logAtStart' = logFile
    /\ UNCHANGED <<inputs, logFile, files, loaded, sem, flaky, history>>

\* The resolver's POST is answered (line 147)
SingleResolve(resp) ==
    /\ phase = "single"
    /\ jobs[1].pc = "resolve"
    /\ LET r == fetch_loom_download_url(resp)
           direct == <<1, jobs[1].resolves>>
       IN  IF SingleAfter(r.raised) = "raise"
           THEN /\ jobs' = [jobs EXCEPT ![1] = Returned(@, "failed", @.pc)]
                /\ phase' = "crashed"
           ELSE /\ jobs' = [jobs EXCEPT ![1].pc = "fetch",
                                        ![1].download_url = direct,
                                        ![1].fetched = Append(@, direct)]
                /\ phase' = phase
    /\ UNCHANGED <<inputs, logFile, files, loaded, logAtStart, sem, flaky,
                   history>>

\* The GET of download_loom_video is answered and the body streamed
\* (line 150); download_single_file and main return
SingleFetch(resp) ==
    /\ phase = "single"
    /\ jobs[1].pc = "fetch"
    /\ LET r == download_loom_video(resp)
           path == SinglePath(jobs[1])
       IN  /\ files' = IF r.file = "keep" THEN files
                       ELSE [f \in DOMAIN files \cup {path} |->
                                IF f = path THEN r.file ELSE files[f]]
           /\ IF SingleAfter(r.raised) = "raise"
              THEN /\ jobs' = [jobs EXCEPT
                                  ![1] = Returned(@, "failed", @.pc)]
                   /\ phase' = "crashed"
              ELSE /\ jobs' = [jobs EXCEPT
                                  ![1] = [Returned(@, "ok", "none") EXCEPT
                                             !.status = IF r.raised THEN 0
                                                        ELSE resp.status]]
                   /\ phase' = "idle"
    /\ UNCHANGED <<inputs, logFile, loaded, logAtStart, sem, flaky, history>>

NextSingle ==
    \/ SingleStart
    \/ \E resp \in ResolveResponses : SingleResolve(resp)
    \/ \E resp \in FetchResponses : SingleFetch(resp)

SpecSingle == InitSingle /\ [][NextSingle]_vars

-----------------------------------------------------------------------------
(* Properties *)

JobIds == 1..Len(jobs)

\* The jobs that have started and not yet returned
InFlight == {j \in JobIds : jobs[j].pc \notin {"queued", "done"}}

\* C1: with pool_limit K and more than K jobs, at most K jobs are at any time
\* between their start (the resolver's request) and their return, the sleeps
\* of backoff and the pause included.
C1_BoundedConcurrency ==
    /\ Cardinality(InFlight) <= poolLimit
    /\ phase = "running" => sem = poolLimit - Cardinality(InFlight)

\* The pool is full while a job is queued, one of the running jobs asleep in
\* backoff and another in its pause
C1_Witness ==
    /\ Len(jobs) > poolLimit
    /\ Cardinality(InFlight) = poolLimit
    /\ \E j \in JobIds : jobs[j].pc = "queued"
    /\ \E j \in JobIds : jobs[j].pc = "backoff"
    /\ \E j \in JobIds : jobs[j].pc = "pause"

\* The lines of downloaded.log, and those appended since the run loaded it
LogLines(log) ==
    LET parts == Split(log.content, NL) IN SubSeq(parts, 1, Len(parts) - 1)

NewLines ==
    SubSeq(LogLines(logFile), Len(LogLines(logAtStart)) + 1,
           Len(LogLines(logFile)))

\* No other job of the run has the output path of job j
SoleWriter(j) ==
    \A k \in JobIds \ {j} : OutputPath(jobs[k]) # OutputPath(jobs[j])

\* Some step of job j
JobStep(j) ==
    /\ j \in 1..Len(jobs)
    /\ \/ Admit(j)
       \/ \E resp \in ResolveResponses : Resolve(j, resp)
       \/ \E resp \in FetchResponses : Fetch(j, resp)
       \/ BackoffWake(j)
       \/ \E ok \in BOOLEAN : OpenLog(j, ok)
       \/ \E ok \in BOOLEAN : AppendLog(j, ok)
       \/ PauseWake(j)

\* C2: a job that fails (in the resolver, in every attempt of the fetch, or
\* in the append to the log) aborts neither the batch nor a sibling: the
\* failure does not propagate; the failed job has written no log entry;
\* every line added to the log is the URL of a job that appended it; every
\* job that met no failure ends successfully, having written its output
\* file in full (which is still intact if no other job of the run writes to
\* the same path) and its log entry; an unfinished job can always take its
\* next step unless it is queued behind a full pool or behind an earlier
\* queued job; and the batch returns only when every job is done.
C2_FailureIsolation ==
    /\ phase # "crashed"
    /\ \A j \in JobIds : jobs[j].outcome = "failed" => ~jobs[j].appended
    /\ Len(NewLines) = Cardinality({j \in JobIds : jobs[j].appended})
    /\ \A i \in 1..Len(NewLines) :
           \E j \in JobIds : jobs[j].appended /\ jobs[j].url = NewLines[i]
    /\ \A j \in JobIds :
           jobs[j].pc = "done" /\ j \notin flaky =>
               /\ jobs[j].outcome = "ok"
               /\ jobs[j].appended
               /\ jobs[j].url \in read_downloaded_log(logFile)
               /\ jobs[j].status = 200
               /\ OutputPath(jobs[j]) \in DOMAIN files
               /\ SoleWriter(j) => files[OutputPath(jobs[j])] = "video"
    /\ phase = "running" =>
           \A j \in JobIds :
               jobs[j].pc # "done" =>
                   \/ ENABLED JobStep(j)
                   \/ /\ jobs[j].pc = "queued"
                      /\ \/ Cardinality(InFlight) = poolLimit
                         \/ \E k \in 1..(j - 1) : jobs[k].pc = "queued"
    /\ phase = "idle" => \A j \in JobIds : jobs[j].pc = "done"

\* The batch of three is over: job 2 failed every attempt of its fetch,
\* jobs 1 and 3 succeeded and have their files and their log entries
C2_Witness ==
    /\ phase = "idle"
    /\ Len(jobs) = 3
    /\ jobs[2].outcome = "failed" /\ jobs[2].stage = "fetch"
    /\ jobs[2].url \notin read_downloaded_log(logFile)
    /\ \A j \in {1, 3} :
           /\ jobs[j].outcome = "ok"
           /\ jobs[j].url \in read_downloaded_log(logFile)
           /\ files[OutputPath(jobs[j])] = "video"

\* The lines of the input list that name a URL, and those among them whose
\* URL is a line of the log as the run loaded it
ListLines == Split(listFile, NL)
Listed == {i \in 1..Len(ListLines) : Strip(ListLines[i]) # <<>>}
InLoadedLog(u) ==
    /\ logAtStart.exists
    /\ \E part \in Range(Split(logAtStart.content, NL)) : Strip(part) = u
Present == {i \in Listed : InLoadedLog(Strip(ListLines[i]))}

\* The k-th smallest element of a set of numbers
Nth(S, k) == CHOOSE i \in S : Cardinality({m \in S : m < i}) = k - 1

\* C3: a run has one job for each non-blank line of the list whose URL is
\* not in the log as loaded at its start, in list order: with N URLs listed
\* and M of them in the log there are N - M jobs, each resolves once, and no
\* job is for a URL of the loaded log.
C3_IdempotentResumption ==
    phase = "running" =>
        /\ Len(jobs) = Cardinality(Listed) - Cardinality(Present)
        /\ \A j \in JobIds :
               /\ jobs[j].url = Strip(ListLines[Nth(Listed \ Present, j)])
               /\ ~InLoadedLog(jobs[j].url)
               /\ jobs[j].resolves = IF jobs[j].pc = "queued" THEN 0 ELSE 1

\* A run over a list of two URLs, one of them in the loaded log, has come to
\* its end with one download attempted
C3_Witness ==
    /\ phase = "running"
    /\ Cardinality(Listed) = 2
    /\ Cardinality(Present) = 1
    /\ Len(jobs) = 1
    /\ jobs[1].pc = "done"
    /\ jobs[1].resolves = 1

\* C4: every URL in the log was in it when the run loaded it or is the URL
\* of a job of this run that appended it after its call of backoff returned
\* normally; a job that has not got that far, or has failed, has appended
\* nothing.
C4_LogOnlyAfterFetch ==
    /\ \A u \in read_downloaded_log(logFile) :
           \/ u \in read_downloaded_log(logAtStart)
           \/ \E j \in JobIds :
                  /\ jobs[j].url = u
                  /\ jobs[j].appended
                  /\ jobs[j].status # 0
    /\ \A j \in JobIds :
           /\ jobs[j].appended =>
                  /\ jobs[j].status # 0
                  /\ jobs[j].pc \in {"pause", "done"}
                  /\ jobs[j].outcome # "failed"
           /\ jobs[j].pc \in {"append", "write"} => jobs[j].status # 0

\* A job has appended its URL to a log that held another URL already
C4_Witness ==
    \E j \in JobIds :
        /\ jobs[j].appended
        /\ jobs[j].pc = "pause"
        /\ read_downloaded_log(logAtStart) # {}
        /\ jobs[j].url \in read_downloaded_log(logFile)
        /\ jobs[j].url \notin read_downloaded_log(logAtStart)

\* C5: the retry wraps resolve and fetch: every call of fn has a resolution
\* of its own and fetches a direct media URL no earlier attempt used, and a
\* job whose resolver call fails is retried up to 5 times, not failed at
\* once.
C5_RetryWrapsResolve ==
    \A j \in JobIds :
        /\ Len(jobs[j].fetched) <= jobs[j].resolves
        /\ \A a, b \in 1..Len(jobs[j].fetched) :
               a # b => jobs[j].fetched[a] # jobs[j].fetched[b]
        /\ jobs[j].outcome = "failed" /\ jobs[j].stage = "resolve" =>
               jobs[j].resolves = Retries

\* The waits of the orchestrator's retry policy, in milliseconds
ExpectedWaits == <<1000, 2000, 4000, 8000>>

IsPrefix(s, t) == Len(s) <= Len(t) /\ s = SubSeq(t, 1, Len(s))

\* C6: under backoff(5, fn) with the initial delay of 1000 ms, consecutive
\* calls of fn are separated by one wait each, the waits are 1 s, 2 s, 4 s
\* and 8 s in that order, and a job whose fetch has failed for good has
\* called fn exactly 5 times and waited exactly those four times: nothing is
\* awaited after the 5th call, whose failure ends the job.
C6_BackoffTiming ==
    \A j \in JobIds :
        /\ IsPrefix(jobs[j].waits, ExpectedWaits)
        /\ jobs[j].pc = "fetch" =>
               Len(jobs[j].fetched) = Len(jobs[j].waits) + 1
        /\ jobs[j].pc = "backoff" =>
               Len(jobs[j].fetched) = Len(jobs[j].waits)
        /\ jobs[j].stage = "fetch" =>
               /\ jobs[j].outcome = "failed"
               /\ Len(jobs[j].fetched) = 5
               /\ jobs[j].waits = ExpectedWaits

\* A job has failed in its fetch for good, after five calls
C6_Witness ==
    \E j \in JobIds :
        /\ jobs[j].outcome = "failed"
        /\ jobs[j].stage = "fetch"
        /\ Len(jobs[j].fetched) = 5

\* C7: every job, failed or not, has slept its pause when it gives its slot
\* of the pool back.
C7_PauseBeforeRelease ==
    \A j \in JobIds : jobs[j].pc = "done" => Len(jobs[j].pause) = 1

\* C8: download_loom_video fails on every response whose status is not a
\* success, so no job goes on to the log, and none is marked completed,
\* after a response with such a status.
C8_NonSuccessFails ==
    \A j \in JobIds :
        /\ jobs[j].status # 0 => jobs[j].status \in 200..299
        /\ jobs[j].appended => jobs[j].status \in 200..299

\* C9: a job that fails, its retries exhausted or otherwise, is recorded as
\* failed and puts nothing in the log: its URL is in the log only if the log
\* held it when the run loaded it or another job of the run, for the same
\* URL, appended it; a job that is not recorded as failed has fetched with
\* success; and the run after one in which a job failed has a job for that
\* URL again, unless the log it loaded holds the URL.
C9_FailedJobRetriedNextRun ==
    /\ \A j \in JobIds :
           /\ jobs[j].pc = "done" => jobs[j].outcome \in {"ok", "failed"}
           /\ jobs[j].outcome = "ok" => jobs[j].status # 0
           /\ jobs[j].outcome = "failed" =>
                  /\ ~jobs[j].appended
                  /\ jobs[j].url \in read_downloaded_log(logFile) =>
                         \/ jobs[j].url \in read_downloaded_log(logAtStart)
                         \/ \E k \in JobIds \ {j} :
                                /\ jobs[k].url = jobs[j].url
                                /\ jobs[k].appended
    /\ phase = "running" =>
           \A f \in failedBefore :
               f[1] \notin loaded => \E j \in JobIds : jobs[j].url = f[1]

\* The run after one in which the job of a URL exhausted its retries has a
\* job for that URL, the URL being absent from the log
C9_Witness ==
    /\ phase = "running"
    /\ \E j \in JobIds :
           /\ <<jobs[j].url, "fetch">> \in failedBefore
           /\ jobs[j].url \notin read_downloaded_log(logFile)
           /\ jobs[j].pc = "fetch"

\* C10: a fresh load of the log after a job has appended its URL returns a
\* set that holds the URL; the load of an absent log is the empty set; and
\* no run has a job for a URL whose job succeeded in an earlier run.
C10_LogRoundTrip ==
    /\ \A j \in JobIds :
           jobs[j].appended => jobs[j].url \in read_downloaded_log(logFile)
    /\ phase = "running" /\ ~logAtStart.exists => loaded = {}
    /\ succeededBefore \subseteq read_downloaded_log(logFile)
    /\ \A j \in JobIds : jobs[j].url \notin succeededBefore

\* A later run over a list that names a URL downloaded by an earlier run has
\* started, and has a job for another URL only
C10_Witness ==
    /\ phase = "running"
    /\ succeededBefore # {}
    /\ \E i \in Listed : Strip(ListLines[i]) \in succeededBefore
    /\ jobs # <<>>

\* C11: async_pool returns only when every task has finished and returns
\* one result for each, success or failure: it never raises to its caller,
\* and once it is back every task is done and has its outcome.
C11_OneResultPerJob ==
    /\ phase # "crashed"
    /\ phase # "running" =>
           \A j \in JobIds :
               jobs[j].pc = "done" /\ jobs[j].outcome \in {"ok", "failed"}

\* The event loop runs every task that is ready, and every network call,
\* file operation and sleep returns in the end: no step of a task and no
\* return of gather is put off for ever. Nothing makes the operator start
\* another run.
MaxJobs == MaxPool + 1

Fairness ==
    /\ \A j \in 1..MaxJobs : WF_vars(JobStep(j))
    /\ WF_vars(FinishBatch)

FairSpecPool == SpecPool /\ Fairness

\* The jobs still waiting for the semaphore
Queued == {j \in JobIds : jobs[j].pc = "queued"}

\* C12: async_pool keeps the pool full while jobs are queued. A queued job
\* waits for nothing but a slot: whenever the batch runs, jobs are queued and
\* fewer than pool_limit are in flight, the first queued job can start at
\* once; so whenever no job can start and jobs are queued, exactly pool_limit
\* are in flight; a pool that is not full with jobs queued is filled up or
\* runs out of queued jobs; and every queued job is started in the end.
C12_WorkConserving ==
    /\ [](phase = "running" /\ Queued # {} =>
             IF Cardinality(InFlight) < poolLimit
             THEN ENABLED Admit(CHOOSE j \in Queued : \A k \in Queued : j <= k)
             ELSE Cardinality(InFlight) = poolLimit)
    /\ (phase = "running" /\ Queued # {}
            /\ Cardinality(InFlight) < poolLimit)
           ~> (Queued = {} \/ Cardinality(InFlight) = poolLimit)
    /\ \A j \in 1..MaxJobs : (j \in Queued) ~> (j \notin Queued)

\* A job has failed and returned while the last job of the list was queued,
\* that job has been started in its place and the pool is full again
C12_Witness ==
    /\ phase = "running"
    /\ Len(jobs) = poolLimit + 1
    /\ \E j \in JobIds : jobs[j].outcome = "failed"
    /\ Len(jobs) \in InFlight
    /\ Cardinality(InFlight) = poolLimit

\* The identifier of a share URL: what stands before its first "?", from
\* behind the last "/" of that on
Identifier(u) ==
    LET marks == {i \in 1..Len(u) : u[i] = "?"}
        stop == IF marks = {} THEN Len(u) + 1
                ELSE CHOOSE i \in marks : \A k \in marks : i <= k
        slashes == {i \in 1..(stop - 1) : u[i] = "/"}
        start == IF slashes = {} THEN 0
                 ELSE CHOOSE i \in slashes : \A k \in slashes : i >= k
    IN  SubSeq(u, start + 1, stop - 1)

\* The number a decimal numeral without sign stands for; -1 if it is none
NumeralValue(ds) ==
    LET digits == <<"0", "1", "2", "3", "4", "5", "6", "7", "8", "9">>
        IsNumeral == /\ ds # <<>>
                     /\ \A i \in 1..Len(ds) : ds[i] \in Range(digits)
                     /\ Len(ds) > 1 => ds[1] # "0"
        DigitValue(c) == (CHOOSE d \in 1..10 : digits[d] = c) - 1
        RECURSIVE Value(_)
        Value(n) == IF n = 0 THEN 0
                    ELSE 10 * Value(n - 1) + DigitValue(ds[n])
    IN  IF IsNumeral THEN Value(Len(ds)) ELSE -1

Mp4 == <<".", "m", "p", "4">>

\* C13: the j-th job of a run is for the j-th of the non-blank lines of the
\* list whose URL is not in the loaded log and has the index j; its
\* destination is <prefix>-<index>-<identifier>.mp4 if there is a prefix and
\* <identifier>.mp4 if there is none, the identifier being the last path
\* segment of the URL without its query string; and that is the file a job
\* has written to once its fetch has returned.
C13_IndexAndFilename ==
    \A j \in JobIds :
        LET name == OutputPath(jobs[j])
            parts == Split(name, "-")
        IN  /\ phase = "running" =>
                   jobs[j].url = Strip(ListLines[Nth(Listed \ Present, j)])
            /\ jobs[j].index = j
            /\ IF prefix # <<>>
               THEN /\ Len(parts) = 3
                    /\ parts[1] = prefix
                    /\ NumeralValue(parts[2]) = jobs[j].index
                    /\ parts[3] = Identifier(jobs[j].url) \o Mp4
               ELSE name = Identifier(jobs[j].url) \o Mp4
            /\ jobs[j].status # 0 => name \in DOMAIN files

\* With a prefix, the first job of a run is for the second URL of the list,
\* the first being in the log; its URL has a query string, and it has
\* written its file
C13_Witness ==
    /\ phase = "running"
    /\ prefix # <<>>
    /\ Present # {}
    /\ jobs # <<>>
    /\ Nth(Listed \ Present, 1) = 2
    /\ "?" \in Range(jobs[1].url)
    /\ jobs[1].status = 200
    /\ OutputPath(jobs[1]) = <<"p", "-", "1", "-", "2">> \o Mp4
    /\ files[OutputPath(jobs[1])] = "video"

\* C14: a call of download_single_file resolves once and fetches at most
\* once; it does not retry, sleeps neither for a backoff nor for a pause,
\* neither loads the log nor writes to it; and a failure of the resolver or
\* of the fetch leaves the program by an exception, after that one attempt.
C14_SingleFileMode ==
    /\ logFile = logAtStart
    /\ loaded = {}
    /\ jobs # <<>> =>
           /\ Len(jobs) = 1
           /\ jobs[1].resolves = 1
           /\ Len(jobs[1].fetched) <= 1
           /\ jobs[1].retries = 0
           /\ jobs[1].waits = <<>>
           /\ jobs[1].pause = <<>>
           /\ ~jobs[1].appended
           /\ jobs[1].outcome = "failed" <=> phase = "crashed"
           /\ jobs[1].outcome = "ok" =>
                  /\ jobs[1].status # 0
                  /\ Len(jobs[1].fetched) = 1
           /\ jobs[1].stage = "fetch" => Len(jobs[1].fetched) = 1
           /\ jobs[1].stage = "resolve" => jobs[1].fetched = <<>>

\* The one fetch of a call has failed and ended the program, with a log on
\* disk that holds another URL
C14_Witness ==
    /\ phase = "crashed"
    /\ jobs # <<>>
    /\ jobs[1].stage = "fetch"
    /\ logFile.exists
    /\ read_downloaded_log(logFile) # {}
    /\ argsUrl \notin read_downloaded_log(logFile)

\* C15: the pause of a job lasts the --timeout of the command line, 0
\* included; it lasts 5000 ms only if the timeout is 5000, which is also
\* what the command line without --timeout gives.
C15_PauseIsTimeout ==
    \A j \in JobIds :
        jobs[j].pause # <<>> => jobs[j].pause = <<timeout>>

RECURSIVE Doubled(_, _)
Doubled(d, n) == IF n = 0 THEN d ELSE 2 * Doubled(d, n - 1)

\* C16: backoff(retries, fn, delay) calls fn at most `retries` times; it
\* sleeps once between two calls, first for `delay` and then for twice the
\* sleep before, and never for more than 32000 ms; after a call of fn that
\* succeeded it calls fn no more; it returns only after such a call; and it
\* raises when the last call it makes has failed, which is the call number
\* `retries` or the one after which the delay would exceed 32000 ms.
C16_BackoffGeneral ==
    \A j \in JobIds :
        LET calls == Len(jobs[j].fetched)
            sleeps == jobs[j].waits
        IN  /\ calls <= retries0
            /\ \A i \in 1..Len(sleeps) :
                   /\ sleeps[i] = Doubled(delay0, i - 1)
                   /\ sleeps[i] <= 32000
            /\ jobs[j].pc = "fetch" => Len(sleeps) = calls - 1
            /\ jobs[j].pc = "backoff" => Len(sleeps) = calls
            /\ jobs[j].status # 0 =>
                   /\ jobs[j].pc \notin {"resolve", "fetch", "backoff"}
                   /\ ~ENABLED (\E resp \in FetchResponses : Fetch(j, resp))
            /\ \/ jobs[j].pc \in {"append", "write", "pause"}
               \/ jobs[j].outcome = "ok"
               => jobs[j].status # 0
            /\ jobs[j].stage = "fetch" =>
                   /\ jobs[j].outcome = "failed"
                   /\ Len(sleeps) = calls - 1
                   /\ \/ calls = retries0
                      \/ Doubled(delay0, calls - 1) > 32000

\* The delay has gone past the ceiling before the attempts ran out: after
\* sleeps of 16 s and 32 s the third of four attempts was the last
C16_Witness ==
    \E j \in JobIds :
        /\ retries0 = 4
        /\ jobs[j].stage = "fetch"
        /\ jobs[j].outcome = "failed"
        /\ Len(jobs[j].fetched) = 3
        /\ jobs[j].waits = <<16000, 32000>>

\* C17: every batch run ends. No job resolves more than once or fetches
\* more than 5 times; every job of a run comes to its end, success or
\* reported failure; the batch returns; and when it has returned every job
\* is done and every slot of the pool is free again.
C17_Termination ==
    /\ [](\A j \in JobIds :
             jobs[j].resolves <= 1 /\ Len(jobs[j].fetched) <= 5)
    /\ \A j \in 1..MaxJobs :
           (phase = "running" /\ j \in JobIds /\ jobs[j].pc # "done")
               ~> (j \in JobIds /\ jobs[j].pc = "done"
                      /\ jobs[j].outcome \in {"ok", "failed"})
    /\ (phase = "running") ~> (phase = "idle")
    /\ [](phase = "idle" /\ jobs # <<>> =>
             /\ \A j \in JobIds : jobs[j].pc = "done"
             /\ sem = poolLimit)

\* A batch of more jobs than slots has returned, one of its jobs having
\* failed after five attempts, and the pool is free
C17_Witness ==
    /\ phase = "idle"
    /\ Len(jobs) = poolLimit + 1
    /\ sem = poolLimit
    /\ \E j \in JobIds :
           jobs[j].outcome = "failed" /\ Len(jobs[j].fetched) = 5
    /\ \E j \in JobIds : jobs[j].outcome = "ok"

\* What the log holds behind what it held when the run began
Added == SubSeq(logFile.content, Len(logAtStart.content) + 1,
                Len(logFile.content))

\* C18: the log only grows, by whole lines: at every step of a run it is
\* what it was when the run began followed by one line, the URL and a
\* newline, for each job that has appended, and no step of the program
\* removes the file or changes what it held before the step.
C18_AppendOnly ==
    /\ [](/\ logAtStart.exists => logFile.exists
          /\ IsPrefix(logAtStart.content, logFile.content)
          /\ LET parts == Split(Added, NL)
             IN  /\ parts[Len(parts)] = <<>>
                 /\ Len(parts) - 1 =
                        Cardinality({j \in JobIds : jobs[j].appended})
                 /\ \A i \in 1..(Len(parts) - 1) :
                        \E j \in JobIds :
                            jobs[j].appended /\ jobs[j].url = parts[i])
    /\ [][/\ logFile.exists => logFile'.exists
          /\ IsPrefix(logFile.content, logFile'.content)]_vars

\* Two jobs have had the log open at the same time: one has written its
\* line behind those of an earlier run, the other is about to write
C18_Witness ==
    /\ phase = "running"
    /\ logAtStart.content # <<>>
    /\ \E j, k \in JobIds :
           /\ j # k
           /\ jobs[j].appended
           /\ jobs[k].pc = "write"

\* C19: a run has at most one job for a URL, and appends a URL to the log
\* at most once.
C19_OneJobPerUrl ==
    /\ \A j, k \in JobIds : j # k => jobs[j].url # jobs[k].url
    /\ LET parts == Split(Added, NL)
       IN  \A i, k \in 1..(Len(parts) - 1) : i # k => parts[i] # parts[k]

\* The jobs whose download is under way: their call of backoff at line 128
\* has not returned, and each call of download_loom_video in it opens the
\* destination for writing
Downloading == {j \in JobIds : jobs[j].pc \in {"fetch", "backoff"}}

\* C20: two jobs of a run whose downloads are under way at the same time
\* have different destination paths.
C20_DistinctDestinations ==
    \A j, k \in Downloading :
        j # k => OutputPath(jobs[j]) # OutputPath(jobs[k])

====
